---- MODULE Spec2Model ----
(***************************************************************************)
(* Model of src/services/apiService.ts: the mock recognition service of    *)
(* SilentTalk (checkConnection, processVideo, translateToVietnamese,       *)
(* checkServerStatus), its module-level uploadCounter and its two static   *)
(* tables.                                                                 *)
(*                                                                         *)
(* Conventions.                                                            *)
(*  - A JavaScript string that the code takes apart (videoUri) is a        *)
(*    sequence of one-character strings; a string the code only passes     *)
(*    around (a prediction, a message) is a TLA+ string.                   *)
(*  - A confidence c is the integer 100*c (0.98 is 98).                    *)
(*  - An object with optional fields is a record that has exactly the      *)
(*    fields the code sets.                                                *)
(*  - Each async call occupies a slot; pc[c] is the await it is suspended  *)
(*    at.  JavaScript runs a call from one await to the next without       *)
(*    interruption, so a slot steps only when every other slot is at a     *)
(*    suspension point.                                                    *)
(*  - ev is the last thing that happened: the return of checkConnection    *)
(*    or the settling of a call, with what the call was given and what     *)
(*    its collaborators answered.  started, nonRecStarted, reached and     *)
(*    observed count what has happened so far.                             *)
(*  - testConnection (lines 266-289) only reports and is left out.         *)
(***************************************************************************)
EXTENDS Integers, Sequences, FiniteSets, TLC

VARIABLES uploadCounter, pc, call, ev, started, nonRecStarted, reached, observed

vars == <<uploadCounter, pc, call, ev, started, nonRecStarted, reached, observed>>

(***************************************************************************)
(* Bounds and input pools.                                                 *)
(***************************************************************************)
\* calls started in one behaviour
MaxCalls == 3
\* calls in flight at the same time
MaxInFlight == 2

Slots == 1..MaxInFlight

\* line 24-42: the keyword table, in insertion order
filenameToSignMap ==
  << [keyword |-> <<"h", "e", "l", "l", "o">>,
      prediction |-> "Hello", confidence |-> 95],
     [keyword |-> <<"t", "h", "a", "n", "k">>,
      prediction |-> "Thank you", confidence |-> 92],
     [keyword |-> <<"g", "o", "o", "d", "b", "y", "e">>,
      prediction |-> "Goodbye", confidence |-> 91],
     [keyword |-> <<"y", "e", "s">>,
      prediction |-> "Yes", confidence |-> 98],
     [keyword |-> <<"n", "o">>,
      prediction |-> "No", confidence |-> 97],
     [keyword |-> <<"p", "l", "e", "a", "s", "e">>,
      prediction |-> "Please", confidence |-> 90],
     [keyword |-> <<"h", "e", "l", "p">>,
      prediction |-> "Help", confidence |-> 92],
     [keyword |-> <<"l", "o", "v", "e">>,
      prediction |-> "I love you", confidence |-> 93],
     [keyword |-> <<"f", "r", "i", "e", "n", "d">>,
      prediction |-> "Friend", confidence |-> 89],
     [keyword |-> <<"f", "a", "m", "i", "l", "y">>,
      prediction |-> "Family", confidence |-> 88],
     [keyword |-> <<"h", "u", "n", "g", "r", "y">>,
      prediction |-> "Hungry", confidence |-> 87],
     [keyword |-> <<"d", "r", "i", "n", "k">>,
      prediction |-> "Drink", confidence |-> 86],
     [keyword |-> <<"n", "a", "m", "e">>,
      prediction |-> "Name", confidence |-> 84],
     [keyword |-> <<"t", "i", "m", "e">>,
      prediction |-> "Time", confidence |-> 85],
     [keyword |-> <<"s", "c", "h", "o", "o", "l">>,
      prediction |-> "School", confidence |-> 86],
     [keyword |-> <<"h", "o", "w", "a", "r", "e", "y", "o", "u">>,
      prediction |-> "How are you?", confidence |-> 91],
     [keyword |-> <<"i", "d", "o", "n", "t", "u", "n", "d", "e", "r", "s", "t", "a", "n", "d">>,
      prediction |-> "I don't understand", confidence |-> 89] >>


\* pieces the video URIs of the inputs are built from: directory, base name, extension
Dirs ==
  { <<>>,
    <<"f", "i", "l", "e", ":", "/", "/", "/", "d", "a", "t", "a", "/">>,
    <<"/", "h", "e", "l", "l", "o", "/">>,
    <<"y", "e", "s", ".", "d", "/">> }

Bases ==
  { <<"M", "y", "V", "i", "d", "e", "o", "_", "H", "e", "l", "l", "o">>,
    <<"c", "l", "i", "p">>,
    <<>>,
    <<"k", "n", "o", "w">>,
    <<"N", "o", "T", "h", "a", "n", "k", "s">>,
    <<"y", "e", "s", "n", "o">>,
    <<"v", "2", ".", "h", "e", "l", "l", "o">>,
    <<"H", "o", "w", "A", "r", "e", "Y", "o", "u">>,
    <<"i", "d", "o", "n", "t", "u", "n", "d", "e", "r", "s", "t", "a", "n", "d">>,
    <<"G", "O", "O", "D", "B", "Y", "E">> }

Exts ==
  { <<>>,
    <<".", "m", "p", "4">>,
    <<".", "M", "O", "V">>,
    <<".", "n", "o">>,
    <<".">>,
    <<".", "n", "o", "-", "e", "x", "t">>,
    <<"/">> }

MyVideoHello == <<"M", "y", "V", "i", "d", "e", "o", "_", "H", "e", "l", "l", "o", ".", "m", "p", "4">>
ClipMov == <<"f", "i", "l", "e", ":", "/", "/", "/", "d", "a", "t", "a", "/", "c", "l", "i", "p", ".", "M", "O", "V">>

AllUris == { d \o b \o e : d \in Dirs, b \in Bases, e \in Exts }

\* the URIs of the calls that may overlap
SmallUris == { MyVideoHello, ClipMov }

\* the texts handed to translateToVietnamese
Texts == { "Hello", "hello", "Unknown Sign", "Xyz", "", "constructor" }

(***************************************************************************)
(* Strings (lines 169-179).                                                *)
(***************************************************************************)
UpperCase ==
  << "A", "B", "C", "D", "E", "F", "G", "H", "I", "J", "K", "L", "M",
     "N", "O", "P", "Q", "R", "S", "T", "U", "V", "W", "X", "Y", "Z" >>

LowerCase ==
  << "a", "b", "c", "d", "e", "f", "g", "h", "i", "j", "k", "l", "m",
     "n", "o", "p", "q", "r", "s", "t", "u", "v", "w", "x", "y", "z" >>

Digits == { "0", "1", "2", "3", "4", "5", "6", "7", "8", "9" }

Range(s) == { s[i] : i \in 1..Len(s) }

\* \w of the regular expression of line 175
WordChars == Range(UpperCase) \cup Range(LowerCase) \cup Digits \cup { "_" }

\* String.prototype.split with a one-character separator: the segments, in order
RECURSIVE SplitFrom(_, _, _, _)
SplitFrom(s, sep, i, cur) ==
  IF i > Len(s) THEN << cur >>
  ELSE IF s[i] = sep THEN << cur >> \o SplitFrom(s, sep, i + 1, << >>)
  ELSE SplitFrom(s, sep, i + 1, Append(cur, s[i]))

Split(s, sep) == SplitFrom(s, sep, 1, << >>)

\* Array.prototype.pop: the last element
Pop(segments) == segments[Len(segments)]

\* line 169: videoUri.split('/').pop() || ''
Filename(videoUri) ==
  LET last == Pop(Split(videoUri, "/"))
  IN  IF last = << >> THEN << >> ELSE last

ToLowerCaseIdentity(s) == s

\* the lower-case form of one character
LowerChar(ch) ==
  IF \E k \in 1..Len(UpperCase) : UpperCase[k] = ch
  THEN LowerCase[CHOOSE k \in 1..Len(UpperCase) : UpperCase[k] = ch]
  ELSE ch

RECURSIVE LowerFrom(_, _)
LowerFrom(s, i) ==
  IF i > Len(s) THEN << >> ELSE << LowerChar(s[i]) >> \o LowerFrom(s, i + 1)

\* line 170: String.prototype.toLowerCase
ToLowerCase(s) == LowerFrom(s, 1)

\* the regular expression /\.\w+$/ matches at position i
ExtensionMatchesAt(s, i) ==
  /\ s[i] = "."
  /\ i < Len(s)
  /\ \A j \in (i + 1)..Len(s) : s[j] \in WordChars

\* line 175: filenameLower.replace(/\.\w+$/, ''), the leftmost match removed
RECURSIVE RemoveExtensionFrom(_, _)
RemoveExtensionFrom(s, i) ==
  IF i > Len(s) THEN s
  ELSE IF ExtensionMatchesAt(s, i) THEN SubSeq(s, 1, i - 1)
  ELSE RemoveExtensionFrom(s, i + 1)

RemoveExtension(s) == RemoveExtensionFrom(s, 1)

\* line 179: String.prototype.includes
Includes(s, keyword) ==
  \E i \in 0..(Len(s) - Len(keyword)) : SubSeq(s, i + 1, i + Len(keyword)) = keyword

\* a successful RecognitionResult (lines 9-14)
Recognized(prediction, confidence) ==
  [ success |-> TRUE, prediction |-> prediction, confidence |-> confidence ]

\* a failed RecognitionResult or TranslationResult
Failed(message) == [ success |-> FALSE, error |-> message ]

\* lines 178-193: the loop over Object.entries(filenameToSignMap) and the default
RECURSIVE MatchFrom(_, _)
MatchFrom(name, k) ==
  IF k > Len(filenameToSignMap) THEN Recognized("Unknown Sign", 60)
  ELSE IF Includes(name, filenameToSignMap[k].keyword)
       THEN Recognized(filenameToSignMap[k].prediction, filenameToSignMap[k].confidence)
       ELSE MatchFrom(name, k + 1)

\* lines 169-193: the filename fallback
FilenameResult(videoUri) ==
  MatchFrom(RemoveExtension(ToLowerCase(Filename(videoUri))), 1)

OrderResultZeroBased(counter, videoUri) ==
  IF counter = 0 THEN Recognized("How are you?", 91)
  ELSE IF counter = 1 THEN Recognized("I don't understand", 89)
  ELSE FilenameResult(videoUri)

\* lines 153-194: the response selected by the counter
OrderResult(counter, videoUri) ==
  IF counter = 1 THEN Recognized("How are you?", 91)
  ELSE IF counter = 2 THEN Recognized("I don't understand", 89)
  ELSE FilenameResult(videoUri)

RecordedResultFromTable == Recognized("Hello", 95)

\* lines 140-144
RecordedResult == Recognized("Hello", 98)

NextCounterForgotten(n) == n

\* line 149: uploadCounter++
NextCounter(n) == n + 1

NoConnectionVideo ==
  "No internet connection. The sign recognition model requires internet access."

NoConnectionTranslation ==
  "No internet connection. Translation requires internet access."

\* a thrown Error object
Error(message) == [ message |-> message ]

CatchVideoRethrow(error) == [ settled |-> "rejected", value |-> error ]

\* lines 195-203: the catch of processVideo
CatchVideo(error) ==
  [ settled |-> "resolved",
    value |-> Failed(IF error.message = "" THEN "Failed to process video"
                     ELSE error.message) ]

\* lines 236-244: the catch of translateToVietnamese
CatchTranslate(error) ==
  [ settled |-> "resolved",
    value |-> Failed(IF error.message = "" THEN "Failed to translate text"
                     ELSE error.message) ]

Resolved(value) == [ settled |-> "resolved", value |-> value ]

(***************************************************************************)
(* The translation table and its lookup (lines 45-64, 223-235).  The       *)
(* Vietnamese texts are written without their diacritics.                  *)
(***************************************************************************)
englishToVietnameseMap ==
  ( "Hello" :> "Xin chao" @@ "Thank you" :> "Cam on ban" @@ "Goodbye" :> "Tam biet" @@
    "Yes" :> "Vang / Co" @@ "No" :> "Khong" @@ "Please" :> "Xin vui long" @@
    "Help" :> "Giup do" @@ "I love you" :> "Toi yeu ban" @@ "Friend" :> "Ban be" @@
    "Family" :> "Gia dinh" @@ "Hungry" :> "Doi" @@ "Drink" :> "Uong" @@
    "Name" :> "Ten" @@ "Time" :> "Thoi gian" @@ "School" :> "Truong hoc" @@
    "How are you?" :> "Ban khoe khong?" @@ "I don't understand" :> "Toi khong hieu" @@
    "Unknown Sign" :> "Ky hieu khong xac dinh" )

\* line 45: the table is an object literal, so its prototype is Object.prototype
\* and a property read that finds no own key finds these
ObjectPrototypeProperties ==
  { "constructor", "toString", "toLocaleString", "valueOf", "hasOwnProperty",
    "isPrototypeOf", "propertyIsEnumerable", "__proto__" }

\* a JavaScript string value, as the pieces it is concatenated from
JsString(parts) == [ type |-> "string", parts |-> parts ]

\* a member of Object.prototype: a function or an object, never a string
Inherited(name) == [ type |-> "inherited", parts |-> << name >> ]

Undefined == [ type |-> "undefined", parts |-> << >> ]

\* line 223: englishToVietnameseMap[text]
PropertyGet(text) ==
  IF text \in DOMAIN englishToVietnameseMap THEN JsString(<< englishToVietnameseMap[text] >>)
  ELSE IF text \in ObjectPrototypeProperties THEN Inherited(text)
  ELSE Undefined

\* line 223: the truth value of the looked-up value
Truthy(v) == v.type # "undefined" /\ v # JsString(<< "" >>)

\* line 234: the template literal
Placeholder(text) == JsString(<< "[", text, " - Ban dich tieng Viet]" >>)

\* lines 223-235
TranslationResult(text) ==
  IF Truthy(PropertyGet(text))
  THEN [ success |-> TRUE, translatedText |-> PropertyGet(text) ]
  ELSE [ success |-> TRUE, translatedText |-> Placeholder(text) ]

\* lines 255-259
ServerStatus(hasConnection) ==
  [ isRunning |-> hasConnection,
    message |-> IF hasConnection THEN "Mock service running" ELSE "No internet connection",
    modelAvailable |-> hasConnection ]

(***************************************************************************)
(* The collaborators: what NetInfo.fetch, fetch and FileSystem.getInfoAsync *)
(* may answer.                                                             *)
(***************************************************************************)
NetInfoTypes == { "wifi", "cellular", "ethernet", "none" }

NoNetInfo == [ isConnected |-> "unset", type |-> "unset" ]

\* NetInfo.fetch() (line 77): a state, or a rejection
NetInfoOutcomes ==
  { [ settled |-> "resolved", state |-> [ isConnected |-> b, type |-> t ] ] :
      b \in { "true", "false", "null" }, t \in NetInfoTypes }
    \cup { [ settled |-> "rejected", state |-> NoNetInfo ] }

HttpStatuses == { 200, 204, 302, 404, 503 }

NotIssued == [ settled |-> "notIssued", status |-> 0, reason |-> "" ]

\* the rejection of the fetch when controller.abort() runs (line 86)
Aborted == [ settled |-> "rejected", status |-> 0, reason |-> "abort" ]

\* fetch(..., HEAD) (line 88): a response, or a rejection
HeadOutcomes ==
  { [ settled |-> "resolved", status |-> s, reason |-> "" ] : s \in HttpStatuses }
    \cup { [ settled |-> "rejected", status |-> 0, reason |-> "network" ] }

\* FileSystem.getInfoAsync (line 131): the file's info, or a rejection
FileInfoOutcomes ==
  { [ settled |-> "resolved", exists |-> b, message |-> "" ] : b \in BOOLEAN }
    \cup { [ settled |-> "rejected", exists |-> FALSE, message |-> m ] :
             m \in { "", "EIO" } }

(***************************************************************************)
(* checkConnection (lines 74-106).                                         *)
(***************************************************************************)
QualifiesAnyType(state) == state.isConnected = "true"

\* lines 80-81
Qualifies(state) ==
  state.isConnected = "true" /\ state.type \in { "cellular", "wifi" }

\* line 94: response.ok
ResponseOk(status) == status \in 200..299

\* what checkConnection's promise settles with
BoolString(b) == IF b THEN "true" ELSE "false"

\* lines 95-98: the catch around the fetch
InnerCatch(outcome) == "false"

\* lines 102-105: the catch around the whole check
OuterCatch(outcome) == "false"

(***************************************************************************)
(* State.                                                                  *)
(***************************************************************************)
NoCall == [ kind |-> "none" ]

NoEv == [ type |-> "none" ]

NewCall(kind) ==
  [ kind |-> kind, videoUri |-> << >>, isRecorded |-> FALSE,
    skipConnectionCheck |-> FALSE, text |-> "", ordinal |-> 0,
    netInfoState |-> NoNetInfo, hasConnection |-> "none",
    fileQueried |-> FALSE, reachedAs |-> 0 ]

SuspensionPointsWithYield == { "netinfo", "head", "conn", "fileinfo", "incremented" }

\* the awaits: lines 77, 88, 121 (214, 253) and 131
SuspensionPoints == { "netinfo", "head", "conn", "fileinfo" }

MayRunPreempted(c) == TRUE

\* run to completion: a call steps only while no other call is between two awaits
MayRun(c) ==
  \A d \in Slots \ { c } : pc[d] \in SuspensionPoints \cup { "idle" }

\* a new call takes the lowest free slot
MayStart(c) ==
  /\ pc[c] = "idle"
  /\ \A d \in Slots : d < c => pc[d] # "idle"
  /\ started < MaxCalls
  /\ MayRun(c)

\* line 6
Init ==
  /\ uploadCounter = 0
  /\ pc = [ c \in Slots |-> "idle" ]
  /\ call = [ c \in Slots |-> NoCall ]
  /\ ev = NoEv
  /\ started = 0
  /\ nonRecStarted = 0
  /\ reached = 0
  /\ observed = << >>

\* the call of slot c settles
Settle(c, outcome, fileInfo, seen) ==
  /\ pc' = [ pc EXCEPT ![c] = "idle" ]
  /\ call' = [ call EXCEPT ![c] = NoCall ]
  /\ ev' = [ type |-> "settle", call |-> call[c], outcome |-> outcome,
             fileInfo |-> fileInfo, seen |-> seen ]

NoFileInfo == [ settled |-> "notIssued", exists |-> FALSE, message |-> "" ]

NeedsConnectionCheckAlways(skipConnectionCheck) == TRUE

\* line 120
NeedsConnectionCheck(skipConnectionCheck) == ~skipConnectionCheck

(***************************************************************************)
(* The calls.                                                              *)
(***************************************************************************)
\* lines 115-131: processVideo is called and runs to its first await
StartProcessVideo(c, videoUri, isRecorded, skipConnectionCheck) ==
  /\ MayStart(c)
  /\ started' = started + 1
  /\ nonRecStarted' = IF isRecorded THEN nonRecStarted ELSE nonRecStarted + 1
  /\ LET new == [ NewCall("processVideo") EXCEPT
                    !.videoUri = videoUri,
                    !.isRecorded = isRecorded,
                    !.skipConnectionCheck = skipConnectionCheck,
                    !.ordinal = IF isRecorded THEN 0 ELSE nonRecStarted + 1 ]
     IN  IF NeedsConnectionCheck(skipConnectionCheck)
         THEN /\ pc' = [ pc EXCEPT ![c] = "netinfo" ]
              /\ call' = [ call EXCEPT ![c] = new ]
         ELSE /\ pc' = [ pc EXCEPT ![c] = "fileinfo" ]
              /\ call' = [ call EXCEPT ![c] = [ new EXCEPT !.fileQueried = TRUE ] ]
  /\ ev' = NoEv
  /\ UNCHANGED << uploadCounter, reached, observed >>

\* a call that begins with checkConnection runs to NetInfo.fetch() (line 77)
StartWithCheck(c, new) ==
  /\ MayStart(c)
  /\ started' = started + 1
  /\ pc' = [ pc EXCEPT ![c] = "netinfo" ]
  /\ call' = [ call EXCEPT ![c] = new ]
  /\ ev' = NoEv
  /\ UNCHANGED << uploadCounter, nonRecStarted, reached, observed >>

\* lines 211-214
StartTranslate(c, text) ==
  StartWithCheck(c, [ NewCall("translateToVietnamese") EXCEPT !.text = text ])

\* line 74, called directly
StartCheckConnection(c) == StartWithCheck(c, NewCall("checkConnection"))

\* lines 251-253
StartCheckServerStatus(c) == StartWithCheck(c, NewCall("checkServerStatus"))

\* checkConnection returns: its caller's await (line 121, 214, 253) is answered
ReturnFromCheck(c, value, netInfo, head) ==
  /\ pc' = [ pc EXCEPT ![c] = "conn" ]
  /\ call' = [ call EXCEPT ![c].hasConnection = value, ![c].netInfoState = NoNetInfo ]
  /\ ev' = [ type |-> "conn", call |-> call[c], netInfo |-> netInfo, head |-> head,
             value |-> value ]
  /\ UNCHANGED << uploadCounter, started, nonRecStarted, reached, observed >>

\* lines 77-87 and 101-105: NetInfo.fetch() settles
NetInfoSettles(c, outcome) ==
  /\ pc[c] = "netinfo"
  /\ MayRun(c)
  /\ IF outcome.settled = "rejected"
     THEN ReturnFromCheck(c, OuterCatch(outcome), outcome, NotIssued)
     ELSE IF Qualifies(outcome.state)
     THEN /\ pc' = [ pc EXCEPT ![c] = "head" ]
          /\ call' = [ call EXCEPT ![c].netInfoState = outcome.state ]
          /\ ev' = NoEv
          /\ UNCHANGED << uploadCounter, started, nonRecStarted, reached, observed >>
     ELSE ReturnFromCheck(c, "false", outcome, NotIssued)

\* lines 88-98: the HEAD request settles before the timer fires
HeadSettles(c, outcome) ==
  /\ pc[c] = "head"
  /\ MayRun(c)
  /\ ReturnFromCheck(c,
       IF outcome.settled = "resolved" THEN BoolString(ResponseOk(outcome.status))
       ELSE InnerCatch(outcome),
       [ settled |-> "resolved", state |-> call[c].netInfoState ], outcome)

\* lines 86, 95-98: the 3000 ms timer fires first and aborts the request
TimerAborts(c) ==
  /\ pc[c] = "head"
  /\ MayRun(c)
  /\ ReturnFromCheck(c, InnerCatch(Aborted),
       [ settled |-> "resolved", state |-> call[c].netInfoState ], Aborted)

\* the caller of checkConnection resumes with its answer
Resume(c) ==
  /\ pc[c] = "conn"
  /\ MayRun(c)
  /\ UNCHANGED << uploadCounter, started, nonRecStarted, reached, observed >>
  /\ LET cl == call[c]
         threw == Error("checkConnection failed")
     IN  CASE cl.kind = "checkConnection" ->
                Settle(c, IF cl.hasConnection = "threw"
                          THEN [ settled |-> "rejected", value |-> threw ]
                          ELSE Resolved(cl.hasConnection = "true"), NoFileInfo, 0)
           [] cl.kind = "checkServerStatus" ->
                \* lines 253-259
                Settle(c, IF cl.hasConnection = "threw"
                          THEN [ settled |-> "rejected", value |-> threw ]
                          ELSE Resolved(ServerStatus(cl.hasConnection = "true")),
                       NoFileInfo, 0)
           [] cl.kind = "translateToVietnamese" ->
                \* lines 214-235
                Settle(c, IF cl.hasConnection = "threw" THEN CatchTranslate(threw)
                          ELSE IF cl.hasConnection = "false"
                          THEN Resolved(Failed(NoConnectionTranslation))
                          ELSE Resolved(TranslationResult(cl.text)), NoFileInfo, 0)
           [] cl.kind = "processVideo" ->
                \* lines 121-131
                IF cl.hasConnection = "threw"
                THEN Settle(c, CatchVideo(threw), NoFileInfo, 0)
                ELSE IF cl.hasConnection = "false"
                THEN Settle(c, Resolved(Failed(NoConnectionVideo)), NoFileInfo, 0)
                ELSE /\ pc' = [ pc EXCEPT ![c] = "fileinfo" ]
                     /\ call' = [ call EXCEPT ![c].fileQueried = TRUE ]
                     /\ ev' = NoEv

\* lines 131-150: FileSystem.getInfoAsync settles
FileInfoSettles(c, outcome) ==
  /\ pc[c] = "fileinfo"
  /\ MayRun(c)
  /\ UNCHANGED << started, nonRecStarted, observed >>
  /\ IF outcome.settled = "rejected"
     THEN /\ Settle(c, CatchVideo(Error(outcome.message)), outcome, 0)
          /\ UNCHANGED << uploadCounter, reached >>
     ELSE IF ~outcome.exists
     THEN /\ Settle(c, CatchVideo(Error("Video file does not exist")), outcome, 0)
          /\ UNCHANGED << uploadCounter, reached >>
     ELSE IF call[c].isRecorded
     THEN /\ Settle(c, Resolved(RecordedResult), outcome, 0)
          /\ UNCHANGED << uploadCounter, reached >>
     ELSE /\ uploadCounter' = NextCounter(uploadCounter)
          /\ reached' = reached + 1
          /\ pc' = [ pc EXCEPT ![c] = "incremented" ]
          /\ call' = [ call EXCEPT ![c].reachedAs = reached + 1 ]
          /\ ev' = NoEv

\* lines 153-194: the branch on uploadCounter
SelectResponse(c) ==
  /\ pc[c] = "incremented"
  /\ MayRun(c)
  /\ Settle(c, Resolved(OrderResult(uploadCounter, call[c].videoUri)),
            [ settled |-> "resolved", exists |-> TRUE, message |-> "" ], uploadCounter)
  /\ observed' = Append(observed, uploadCounter)
  /\ UNCHANGED << uploadCounter, started, nonRecStarted, reached >>

\* what the collaborators answer while calls overlap: one answer of each kind
OverlapNetInfo ==
  { o \in NetInfoOutcomes :
      \/ o.settled = "rejected"
      \/ o.state \in { [ isConnected |-> "true", type |-> "wifi" ],
                       [ isConnected |-> "false", type |-> "none" ] } }

OverlapHead == { o \in HeadOutcomes : o.status \in { 0, 200 } }

\* a step of the call in slot c while calls overlap
Step(c) ==
  \/ \E o \in OverlapNetInfo : NetInfoSettles(c, o)
  \/ \E o \in OverlapHead : HeadSettles(c, o)
  \/ TimerAborts(c)
  \/ Resume(c)
  \/ \E o \in FileInfoOutcomes : FileInfoSettles(c, o)
  \/ SelectResponse(c)

\* any number of overlapping processVideo calls
Next ==
  \E c \in Slots :
    \/ \E u \in SmallUris, r \in BOOLEAN, s \in BOOLEAN : StartProcessVideo(c, u, r, s)
    \/ Step(c)

Spec == Init /\ [][Next]_vars

\* a client that makes one call after the other, of any of the four operations
NextClient ==
  \/ \E u \in SmallUris, r \in BOOLEAN, s \in BOOLEAN : StartProcessVideo(1, u, r, s)
  \/ \E t \in Texts : StartTranslate(1, t)
  \/ StartCheckConnection(1)
  \/ StartCheckServerStatus(1)
  \/ \E o \in NetInfoOutcomes : NetInfoSettles(1, o)
  \/ \E o \in HeadOutcomes : HeadSettles(1, o)
  \/ TimerAborts(1)
  \/ Resume(1)
  \/ \E o \in FileInfoOutcomes : FileInfoSettles(1, o)
  \/ SelectResponse(1)

SpecClient == Init /\ [][NextClient]_vars

\* uploads with the connectivity check skipped, one after the other, over
\* every URI of the pool
NextMatch ==
  \/ \E u \in AllUris : StartProcessVideo(1, u, FALSE, TRUE)
  \/ \E o \in FileInfoOutcomes : FileInfoSettles(1, o)
  \/ SelectResponse(1)

SpecMatch == Init /\ [][NextMatch]_vars

(***************************************************************************)
(* The properties.                                                         *)
(***************************************************************************)
VideoSettled == ev.type = "settle" /\ ev.call.kind = "processVideo"

IsRecognitionResult(v) ==
  \/ /\ DOMAIN v = { "success", "prediction", "confidence" }
     /\ v.success
  \/ /\ DOMAIN v = { "success", "error" }
     /\ ~v.success
     /\ v.error # ""

\* C1: processVideo never rejects: whatever the arguments, the connectivity
\* answer, the file's existence and the faults of the collaborators, a call that
\* settles resolves with a RecognitionResult, and a missing file gives
\* success:false with a message whether the video was recorded or uploaded.
C1_AlwaysResolves ==
  VideoSettled =>
    /\ ev.outcome.settled = "resolved"
    /\ IsRecognitionResult(ev.outcome.value)
    /\ (ev.fileInfo.settled = "resolved" /\ ~ev.fileInfo.exists) =>
         ev.outcome.value = [ success |-> FALSE, error |-> "Video file does not exist" ]
    /\ ev.fileInfo.settled = "rejected" => ~ev.outcome.value.success

C1_Witness ==
  /\ VideoSettled
  /\ ev.fileInfo.settled = "rejected"
  /\ ev.fileInfo.message = ""
  /\ ev.call.isRecorded
  /\ ev.outcome = Resolved([ success |-> FALSE, error |-> "Failed to process video" ])

ByPosition(k, videoUri) ==
  IF k = 1 THEN [ success |-> TRUE, prediction |-> "How are you?", confidence |-> 91 ]
  ELSE IF k = 2
  THEN [ success |-> TRUE, prediction |-> "I don't understand", confidence |-> 89 ]
  ELSE FilenameResult(videoUri)

\* C2 as stated: the first call with isRecorded=false yields "How are you?"
\* (0.91), the second "I don't understand" (0.89), the third and later ones the
\* filename match.
C2_Original ==
  (VideoSettled /\ ~ev.call.isRecorded) =>
    ev.outcome = Resolved(ByPosition(ev.call.ordinal, ev.call.videoUri))

\* C2 amended: the first non-recorded call to pass the connectivity gate and the
\* file check yields "How are you?" (0.91), the second such call "I don't
\* understand" (0.89), the third and later ones the filename match, whatever
\* the filenames and the recorded calls in between; a non-recorded call that
\* fails the gate or the file check yields success:false and takes no position.
C2_Amended ==
  (VideoSettled /\ ~ev.call.isRecorded) =>
    IF ev.call.reachedAs >= 1
    THEN ev.outcome = Resolved(ByPosition(ev.call.reachedAs, ev.call.videoUri))
    ELSE ev.outcome.settled = "resolved" /\ ~ev.outcome.value.success

C2_Witness ==
  /\ VideoSettled
  /\ ev.call.reachedAs = 3
  /\ ev.call.videoUri = MyVideoHello
  /\ ev.outcome.value = [ success |-> TRUE, prediction |-> "Hello", confidence |-> 95 ]

\* C3: a recorded call whose file exists (the gate passed or skipped) yields
\* exactly {success:true, prediction:"Hello", confidence:0.98}, whatever the
\* filename and the value of uploadCounter.
C3_RecordedIsHello ==
  (VideoSettled /\ ev.call.isRecorded /\ ev.fileInfo.settled = "resolved"
     /\ ev.fileInfo.exists) =>
    ev.outcome =
      Resolved([ success |-> TRUE, prediction |-> "Hello", confidence |-> 98 ])

C3_Witness ==
  /\ VideoSettled
  /\ ev.call.isRecorded
  /\ ev.fileInfo.exists
  /\ ev.call.videoUri = ClipMov
  /\ uploadCounter = 2
  /\ ev.outcome.value.prediction = "Hello"

Quiet == \A c \in Slots : pc[c] = "idle"

\* C4 as stated: with no call in flight, uploadCounter is the number of
\* processVideo calls made with isRecorded=false.
C4_Original == Quiet => uploadCounter = nonRecStarted

\* C4 amended: uploadCounter is the number of non-recorded processVideo calls
\* that passed the connectivity gate and found their file; it starts at 0, each
\* such call adds exactly one, and nothing else changes it.
C4_Amended ==
  /\ uploadCounter = reached
  /\ uploadCounter <= nonRecStarted
  /\ uploadCounter = Len(observed) + Cardinality({ c \in Slots : pc[c] = "incremented" })

C4_Witness == Quiet /\ uploadCounter = 2 /\ nonRecStarted = 3

\* C5: the file-existence query is issued in a call exactly when
\* skipConnectionCheck is true or checkConnection() returned true; without the
\* skip and without connectivity the call yields the no-internet failure and
\* touches neither the file nor the counter; with the skip the connectivity is
\* never asked and the file is queried.
C5_Gate ==
  /\ \A c \in Slots :
       (pc[c] # "idle" /\ call[c].fileQueried) =>
         (call[c].skipConnectionCheck \/ call[c].hasConnection = "true")
  /\ VideoSettled =>
       /\ ev.call.fileQueried <=>
            (ev.call.skipConnectionCheck \/ ev.call.hasConnection = "true")
       /\ ev.call.fileQueried <=> ev.fileInfo.settled # "notIssued"
       /\ (~ev.call.skipConnectionCheck /\ ev.call.hasConnection = "false") =>
            /\ ev.outcome = Resolved([ success |-> FALSE, error |-> NoConnectionVideo ])
            /\ ev.call.reachedAs = 0
       /\ ev.call.skipConnectionCheck =>
            ev.call.hasConnection = "none" /\ ev.call.fileQueried

C5_Witness ==
  /\ VideoSettled
  /\ ~ev.call.skipConnectionCheck
  /\ ev.call.hasConnection = "false"
  /\ ~ev.call.fileQueried
  /\ ~ev.outcome.value.success

ConnReturned == ev.type = "conn"

\* C6: checkConnection returns true only when the status query reports connected
\* over cellular or wifi and the one HEAD request then completes with a success
\* status; in every other case (disconnected, another interface type, a fault of
\* the status query, a failed or non-success HEAD request, the abort by the
\* 3-second timer) it returns false, and it never throws.
C6_CheckConnection ==
  /\ ConnReturned =>
       /\ ev.value \in { "true", "false" }
       /\ ev.value = "true" <=>
            /\ ev.netInfo.settled = "resolved"
            /\ ev.netInfo.state.isConnected = "true"
            /\ ev.netInfo.state.type \in { "cellular", "wifi" }
            /\ ev.head.settled = "resolved"
            /\ ev.head.status >= 200
            /\ ev.head.status < 300
       /\ ev.head.settled # "notIssued" =>
            /\ ev.netInfo.settled = "resolved"
            /\ ev.netInfo.state.isConnected = "true"
            /\ ev.netInfo.state.type \in { "cellular", "wifi" }
  /\ (ev.type = "settle" /\ ev.call.kind = "checkConnection") =>
       /\ ev.outcome.settled = "resolved"
       /\ ev.outcome.value \in BOOLEAN

C6_Witness ==
  /\ ConnReturned
  /\ ev.value = "true"
  /\ ev.call.kind = "checkConnection"
  /\ ev.netInfo.state.type = "cellular"
  /\ ev.head.status = 204

Pending(d) == pc[d] \in { "netinfo", "head", "conn", "fileinfo" }

\* C7 as stated: while one non-recorded call is between its increment of the
\* counter and its use of the value, a step of another call in flight can be
\* taken.
C7_Original ==
  \A c, d \in Slots :
    (c # d /\ pc[c] = "incremented" /\ Pending(d) /\ ~call[d].isRecorded) =>
      ENABLED Step(d)

\* C7 amended: between a call's increment of the counter and its use of the
\* value no step of another call can be taken and no call can start, so the
\* value it uses is the one its own increment produced; which of two
\* overlapping calls increments first is left to the order in which their awaits
\* complete.
C7_Amended ==
  \A c \in Slots :
    pc[c] = "incremented" =>
      /\ uploadCounter = call[c].reachedAs
      /\ \A d \in Slots \ { c } :
           /\ ~ENABLED Step(d)
           /\ ~ENABLED (\E u \in SmallUris, r \in BOOLEAN, s \in BOOLEAN :
                          StartProcessVideo(d, u, r, s))

\* the call started second has incremented first, the first one is still in flight
C7_Witness ==
  \E c, d \in Slots :
    /\ c # d
    /\ pc[c] = "incremented"
    /\ call[c].ordinal = 2
    /\ call[c].reachedAs = 1
    /\ Pending(d)
    /\ call[d].ordinal = 1

Max(S) == CHOOSE x \in S : \A y \in S : y <= x

\* the part of a URI after its last "/"
LastSegment(uri) ==
  LET slashes == { i \in 1..Len(uri) : uri[i] = "/" }
  IN  IF slashes = { } THEN uri ELSE SubSeq(uri, Max(slashes) + 1, Len(uri))

\* a name without its extension: the last "." and the letters, digits and
\* underscores after it, when there is at least one and nothing else follows
WithoutExtension(name) ==
  LET dots == { i \in 1..Len(name) : name[i] = "." }
  IN  IF /\ dots # { }
         /\ Max(dots) < Len(name)
         /\ \A j \in (Max(dots) + 1)..Len(name) : name[j] \in WordChars
      THEN SubSeq(name, 1, Max(dots) - 1)
      ELSE name

LowerOf(ch) ==
  CASE ch = "A" -> "a" [] ch = "B" -> "b" [] ch = "C" -> "c" [] ch = "D" -> "d"
    [] ch = "E" -> "e" [] ch = "F" -> "f" [] ch = "G" -> "g" [] ch = "H" -> "h"
    [] ch = "I" -> "i" [] ch = "J" -> "j" [] ch = "K" -> "k" [] ch = "L" -> "l"
    [] ch = "M" -> "m" [] ch = "N" -> "n" [] ch = "O" -> "o" [] ch = "P" -> "p"
    [] ch = "Q" -> "q" [] ch = "R" -> "r" [] ch = "S" -> "s" [] ch = "T" -> "t"
    [] ch = "U" -> "u" [] ch = "V" -> "v" [] ch = "W" -> "w" [] ch = "X" -> "x"
    [] ch = "Y" -> "y" [] ch = "Z" -> "z" [] OTHER -> ch

\* the name the keywords are looked for in
MatchedName(uri) ==
  LET segment == LastSegment(uri)
  IN  WithoutExtension([ i \in 1..Len(segment) |-> LowerOf(segment[i]) ])

\* the keywords of the table that are substrings of the name, by position
Matching(name) ==
  { k \in 1..Len(filenameToSignMap) : Includes(name, filenameToSignMap[k].keyword) }

Min(S) == CHOOSE x \in S : \A y \in S : x <= y

UploadSettled == VideoSettled /\ ev.seen >= 3

\* C8: a non-recorded call that observes a counter value >= 3 is answered from
\* the last "/"-separated segment of videoUri, lowercased and without its
\* trailing extension: by the first keyword of the table, in insertion order,
\* that is a substring of that name, and by {"Unknown Sign", 0.6} when none is;
\* "MyVideo_Hello.mp4" gives {"Hello", 0.95}.
C8_FilenameMatch ==
  UploadSettled =>
    LET name == MatchedName(ev.call.videoUri)
        got == ev.outcome.value
    IN  /\ ev.outcome.settled = "resolved"
        /\ IF Matching(name) = { }
           THEN got = [ success |-> TRUE, prediction |-> "Unknown Sign", confidence |-> 60 ]
           ELSE got = [ success |-> TRUE,
                        prediction |-> filenameToSignMap[Min(Matching(name))].prediction,
                        confidence |-> filenameToSignMap[Min(Matching(name))].confidence ]
        /\ ev.call.videoUri = MyVideoHello =>
             got = [ success |-> TRUE, prediction |-> "Hello", confidence |-> 95 ]

\* several keywords match, in a name written in capitals, in a directory, with
\* an extension: the first of the table is the answer
C8_Witness ==
  /\ UploadSettled
  /\ Cardinality(Matching(MatchedName(ev.call.videoUri))) >= 2
  /\ ev.call.videoUri # ToLowerCase(ev.call.videoUri)
  /\ Len(Split(ev.call.videoUri, "/")) > 1
  /\ MatchedName(ev.call.videoUri) # ToLowerCase(LastSegment(ev.call.videoUri))
  /\ ev.outcome.value.prediction = "Thank you"

TranslateSettled == ev.type = "settle" /\ ev.call.kind = "translateToVietnamese"

\* C9: translateToVietnamese fails exactly when checkConnection() is false; with
\* connectivity it yields success:true with the table's text when the text is a
\* key of the table (case-sensitive), and success:true with a placeholder string
\* that contains the text otherwise.
C9_Translate ==
  TranslateSettled =>
       /\ ev.outcome.settled = "resolved"
       /\ ~ev.outcome.value.success <=> ev.call.hasConnection = "false"
       /\ ev.call.hasConnection = "false" =>
            DOMAIN ev.outcome.value = { "success", "error" }
       /\ ev.call.hasConnection = "true" =>
            LET got == ev.outcome.value.translatedText
            IN  /\ got.type = "string"
                /\ IF ev.call.text \in DOMAIN englishToVietnameseMap
                   THEN got.parts = << englishToVietnameseMap[ev.call.text] >>
                   ELSE /\ Len(got.parts) > 1
                        /\ \E i \in 1..Len(got.parts) : got.parts[i] = ev.call.text

\* C10: whatever the interleaving of overlapping calls, the counter values the
\* calls observe at the branch are 1, 2, 3, ... in that order, none skipped and
\* none seen twice; so at most one call takes the counter=1 branch and at most
\* one the counter=2 branch.
C10_DistinctConsecutive ==
  /\ \A i \in 1..Len(observed) : observed[i] = i
  /\ Cardinality({ i \in 1..Len(observed) : observed[i] = 1 }) <= 1
  /\ Cardinality({ i \in 1..Len(observed) : observed[i] = 2 }) <= 1
  /\ \A c \in Slots : pc[c] = "incremented" => uploadCounter = Len(observed) + 1

\* the call started first observes 2: a call started after it went first
C10_Witness ==
  /\ VideoSettled
  /\ ev.seen = 2
  /\ ev.call.ordinal = 1
  /\ observed = << 1, 2 >>
====
